---- MODULE Spec2Model ----
(***************************************************************************)
(* State-machine model of the smart-todo-app task store (src/app.py,       *)
(* src/models.py): the tasks table, the JSON and web-form handlers that    *)
(* change it, and the recurrence generator.                                *)
(*                                                                         *)
(* Time is counted in days.  A stored DateTime is a naive wall-clock day;  *)
(* an ISO-8601 string of a request is a record [wall, suffix], where the   *)
(* suffix is "" (no zone), "Z", "+09:00", "empty" (the empty string) or    *)
(* anything else (not a date).                                             *)
(***************************************************************************)
EXTENDS Integers, Sequences, FiniteSets, TLC

VARIABLES tasks,   \* the tasks table: a function from the ids in use to rows
          now,     \* datetime.utcnow(), in days
          last,    \* the last request handled and its response
          api_key, \* Config.OPENWEATHER_API_KEY ("" when not configured)
          session, \* whether api_client._session has been created
          wx       \* the weather fetches of the last request, by task id
                   \* (0 for a direct call)

vars == <<tasks, now, last, api_key, session, wx>>

---------------------------------------------------------------------------
(* Bounds of the model *)

MaxId == 2         \* Spec: ids 1..MaxId, which also bounds the number of rows
MaxRows == 1       \* SpecCrud: ids 1..MaxRows
MaxTemplates == 2  \* SpecBatch: the rows created before the first request
MaxBatchId == 4    \* SpecBatch: ids 1..MaxBatchId
MaxNow == 1        \* the clock runs over 0..MaxNow
MaxWeatherRows == 1  \* SpecWeather: ids 1..MaxWeatherRows

---------------------------------------------------------------------------
(* Values *)

None == <<>>
Some(x) == <<x>>

PRIORITIES == {"high", "medium", "low"}
STATUSES == {"pending", "completed"}
REPEAT_TYPES == {"none", "daily", "weekly", "monthly"}

DAILY_DAYS == 1
WEEKLY_DAYS == 7
MONTHLY_DAYS == 30

Iso(w, sfx) == [wall |-> w, suffix |-> sfx]
EmptyString == Iso(0, "empty")
Malformed == Iso(0, "not-a-date")

NoData == [k \in {} |-> ""]

Has(data, k) == k \in DOMAIN data
\* dict.get(key, default)
Get(data, k, default) == IF Has(data, k) THEN data[k] ELSE default
\* dict.get(key) of an optional column: None when the key is absent
GetOpt(data, k) == IF Has(data, k) THEN Some(data[k]) ELSE None

\* datetime.fromisoformat(s.replace('Z', '+00:00')): a naive datetime for a
\* string without zone, an aware one otherwise, ValueError for anything else
fromisoformat(s) ==
    CASE s.suffix = ""       -> [ok |-> TRUE, wall |-> s.wall, tz |-> None]
      [] s.suffix = "Z"      -> [ok |-> TRUE, wall |-> s.wall, tz |-> Some(0)]
      [] s.suffix = "+09:00" -> [ok |-> TRUE, wall |-> s.wall, tz |-> Some(9)]
      [] OTHER               -> [ok |-> FALSE, wall |-> 0, tz |-> None]

\* A DateTime column holds the wall-clock value; it has no zone to keep
StoreDateTime(dt) == Some(dt.wall)

\* datetime.isoformat() of a stored (naive) value
isoformat(col) == IF col = None THEN None ELSE Some(Iso(col[1], ""))

---------------------------------------------------------------------------
(* The tasks table *)

Max(S) == CHOOSE m \in S : \A x \in S : x <= m

\* INTEGER PRIMARY KEY without AUTOINCREMENT: one more than the largest id
NextId(db) == IF DOMAIN db = {} THEN 1 ELSE Max(DOMAIN db) + 1

Task(title, description, due_date, priority, status, category, location, repeat_type, parent_task_id) ==
    [title |-> title, description |-> description, due_date |-> due_date,
     priority |-> priority, status |-> status, category |-> category,
     location |-> location, repeat_type |-> repeat_type,
     parent_task_id |-> parent_task_id]

\* db.session.add(task) followed by a flush: the row gets its id and the
\* created_at / updated_at defaults
Add(db, t, clock) ==
    LET nid == NextId(db)
        row == [title |-> t.title, description |-> t.description,
                due_date |-> t.due_date, priority |-> t.priority,
                status |-> t.status, category |-> t.category,
                location |-> t.location, repeat_type |-> t.repeat_type,
                parent_task_id |-> t.parent_task_id,
                created_at |-> clock, updated_at |-> clock]
    IN [i \in DOMAIN db \cup {nid} |-> IF i = nid THEN row ELSE db[i]]

Remove(db, id) == [i \in DOMAIN db \ {id} |-> db[i]]

to_dict(db, id) ==
    [id |-> id, title |-> db[id].title, description |-> db[id].description,
     due_date |-> isoformat(db[id].due_date), priority |-> db[id].priority,
     status |-> db[id].status, category |-> db[id].category,
     location |-> db[id].location, repeat_type |-> db[id].repeat_type,
     parent_task_id |-> db[id].parent_task_id,
     created_at |-> db[id].created_at, updated_at |-> db[id].updated_at]

---------------------------------------------------------------------------
(* Recurrence generator *)

\* As next_due_date, with the weekly branch adding one day
next_due_date_WeeklyOneDay(t) ==
    CASE t.repeat_type = "daily"   -> Some(t.due_date[1] + DAILY_DAYS)
      [] t.repeat_type = "weekly"  -> Some(t.due_date[1] + DAILY_DAYS)
      [] t.repeat_type = "monthly" -> Some(t.due_date[1] + MONTHLY_DAYS)
      [] OTHER                     -> None

next_due_date(t) ==
    CASE t.repeat_type = "daily"   -> Some(t.due_date[1] + DAILY_DAYS)
      [] t.repeat_type = "weekly"  -> Some(t.due_date[1] + WEEKLY_DAYS)
      [] t.repeat_type = "monthly" -> Some(t.due_date[1] + MONTHLY_DAYS)
      [] OTHER                     -> None

\* As existing_task, looking for a completed row instead of a pending one
existing_task_WrongStatus(db, pid, due) ==
    \E i \in DOMAIN db : /\ db[i].parent_task_id = Some(pid)
                         /\ db[i].due_date = due
                         /\ db[i].status = "completed"

\* The dedup query: a pending row with this parent and this due date
existing_task(db, pid, due) ==
    \E i \in DOMAIN db : /\ db[i].parent_task_id = Some(pid)
                         /\ db[i].due_date = due
                         /\ db[i].status = "pending"

\* As generate_repeat_task, counting from day 0 when the parent has no due_date
generate_repeat_task_DefaultDue(db, pid) ==
    LET p == [db[pid] EXCEPT !.due_date = IF @ = None THEN Some(0) ELSE @] IN
    IF p.repeat_type = "none" THEN None
    ELSE IF next_due_date(p) = None THEN None
    ELSE IF existing_task(db, pid, next_due_date(p)) THEN None
    ELSE Some(Task(p.title, p.description, next_due_date(p), p.priority,
                   "pending", p.category, p.location, p.repeat_type,
                   Some(pid)))

\* generate_repeat_task(parent_task) against the rows db of the session:
\* None, or Some(the new, not yet added task)
generate_repeat_task(db, pid) ==
    LET p == db[pid] IN
    IF p.repeat_type = "none" THEN None
    ELSE IF p.due_date = None THEN None
    ELSE IF next_due_date(p) = None THEN None
    ELSE IF existing_task(db, pid, next_due_date(p)) THEN None
    ELSE Some(Task(p.title, p.description, next_due_date(p), p.priority,
                   "pending", p.category, p.location, p.repeat_type,
                   Some(pid)))

\* As overdue_repeat_tasks, without the filter on parent_task_id
overdue_repeat_tasks_WithChildren(db, clock) ==
    {i \in DOMAIN db : /\ db[i].repeat_type # "none"
                       /\ db[i].due_date # None
                       /\ db[i].due_date[1] < clock
                       /\ db[i].status = "pending"}

\* The rows the batch query selects
overdue_repeat_tasks(db, clock) ==
    {i \in DOMAIN db : /\ db[i].repeat_type # "none"
                       /\ db[i].due_date # None
                       /\ db[i].due_date[1] < clock
                       /\ db[i].status = "pending"
                       /\ db[i].parent_task_id = None}

\* The orders in which a query without ORDER BY may return the rows S
Orders(S) ==
    {s \in [1..Cardinality(S) -> S] : \A i, j \in DOMAIN s : s[i] = s[j] => i = j}

RECURSIVE BatchLoop(_, _, _, _)
BatchLoop(order, db, clock, count) ==
    IF order = <<>> THEN [db |-> db, count |-> count]
    ELSE LET new_task == generate_repeat_task(db, Head(order)) IN
         IF new_task # None
         THEN BatchLoop(Tail(order), Add(db, new_task[1], clock), clock, count + 1)
         ELSE BatchLoop(Tail(order), db, clock, count)

\* check_and_generate_repeat_tasks() iterating the selected rows in `order`
check_and_generate_repeat_tasks(db, clock, order) == BatchLoop(order, db, clock, 0)

---------------------------------------------------------------------------
(* Weather client (src/api_client.py)                                      *)
(*                                                                         *)
(* The remote API is the environment.  For one get_weather call it is a    *)
(* record [script, body]: script[i] is what the i-th GET of the call meets *)
(* (an HTTP status, or a transport failure), body is the payload of the    *)
(* response that is finally returned.                                      *)

LOCATION_MAX == 100
RETRY_TOTAL == 3
BACKOFF_FACTOR == 1
STATUS_FORCELIST == {429, 500, 502, 503, 504}
DANGEROUS == {"<", ">", "\"", "'", "\\"}
BAD_WEATHER == {"Rain", "Snow", "Thunderstorm", "Drizzle"}

\* The characters of the location strings of the model
Text(s) ==
    CASE s = ""         -> <<>>
      [] s = " "        -> <<" ">>
      [] s = "Tokyo"    -> <<"T", "o", "k", "y", "o">>
      [] s = "<script>" -> <<"<", "s", "c", "r", "i", "p", "t", ">">>
      [] s = "a>b"      -> <<"a", ">", "b">>
      [] s = "a\"b"     -> <<"a", "\"", "b">>
      [] s = "O'Hare"   -> <<"O", "'", "H", "a", "r", "e">>
      [] s = "a\\b"     -> <<"a", "\\", "b">>
      [] s = "a*100"    -> [i \in 1..LOCATION_MAX |-> "a"]
      [] s = "a*101"    -> [i \in 1..(LOCATION_MAX + 1) |-> "a"]

\* As validate_location, without the check of the characters
validate_location_AnyCharacter(location) ==
    /\ location # ""
    /\ Len(Text(location)) <= LOCATION_MAX

validate_location(location) ==
    /\ location # ""
    /\ Len(Text(location)) <= LOCATION_MAX
    /\ \A i \in 1..Len(Text(location)) : Text(location)[i] \notin DANGEROUS

\* _handle_http_error: the message of the WeatherAPIError it raises
handle_http_error(status_code) ==
    CASE status_code = 401 -> "authentication"
      [] status_code = 403 -> "forbidden"
      [] status_code = 404 -> "not_found"
      [] status_code = 429 -> "rate_limit"
      [] status_code >= 500 -> "server"
      [] OTHER -> "api"

Http(status) == [kind |-> "http", status |-> status]
ConnectTimeout == [kind |-> "connect_timeout", status |-> 0]
Refused == [kind |-> "refused", status |-> 0]

\* A remote that answers every GET of a call in the same way
Always(answer) == [i \in 1..(RETRY_TOTAL + 1) |-> answer]

\* Retry.get_backoff_time before the k-th retry: nothing before the first,
\* backoff_factor * 2^(k-1) afterwards
backoff(k) == IF k <= 1 THEN 0 ELSE BACKOFF_FACTOR * 2^(k - 1)

\* session.get under the Retry of _get_session (total=3, status_forcelist,
\* GET): a transport failure or a listed status is retried while retries are
\* left; when they are used up the adapter raises (RetryError for a listed
\* status, raise_on_status being left at its default).  The result is the
\* exception raised ("" for none), the status of the response returned and
\* the number of GETs sent.
RECURSIVE session_get(_, _)
session_get(script, i) ==
    LET answer == script[i]
        failed == answer.kind # "http" \/ answer.status \in STATUS_FORCELIST
    IN IF ~failed
       THEN [exc |-> "", status |-> answer.status, attempts |-> i]
       ELSE IF i <= RETRY_TOTAL THEN session_get(script, i + 1)
       ELSE [exc |-> CASE answer.kind = "http" -> "RetryError"
                       [] answer.kind = "connect_timeout" -> "Timeout"
                       [] OTHER -> "ConnectionError",
             status |-> answer.status, attempts |-> i]

\* round(temp, 1), the temperature being counted in hundredths of a degree
\* and the result in tenths
round1(temp) == (temp + 5) \div 10

\* Lines 170-197: the result dict built from the parsed JSON object
extract(data, location) ==
    LET weather_data == IF data.weather = <<>>
                        THEN [main |-> "", description |-> "", icon |-> ""]
                        ELSE data.weather[1]
    IN [temp |-> IF data.temp = None THEN None ELSE Some(round1(data.temp[1])),
        condition |-> IF weather_data.description # "" THEN weather_data.description
                      ELSE IF weather_data.main # "" THEN weather_data.main
                      ELSE "unknown",
        description |-> weather_data.description,
        icon |-> weather_data.icon,
        is_bad_weather |-> weather_data.main \in BAD_WEATHER,
        location |-> IF data.name = None THEN location ELSE data.name[1]]

\* The outcome of a call: the class and the message of the exception that
\* leaves it ("" for none), the value returned, the GETs sent with the waits
\* between them, and whether the shared session exists afterwards
Outcome(location, net, exc, kind, result, attempts, sess) ==
    [location |-> location, net |-> net, exc |-> exc, kind |-> kind,
     result |-> result, attempts |-> attempts,
     waits |-> [k \in 1..(IF attempts = 0 THEN 0 ELSE attempts - 1) |-> backoff(k)],
     session |-> sess]

\* The try block of get_weather (lines 141-200), before its except clauses
request_weather(location, net) ==
    LET sent == session_get(net.script, 1) IN
    IF sent.exc # ""
    THEN Outcome(location, net, sent.exc, "", None, sent.attempts, TRUE)
    ELSE IF sent.status >= 400
    THEN Outcome(location, net, "WeatherAPIError", handle_http_error(sent.status),
                 None, sent.attempts, TRUE)
    ELSE IF ~net.body.json
    THEN Outcome(location, net, "WeatherAPIError", "parse", None, sent.attempts, TRUE)
    ELSE IF ~net.body.object
    THEN Outcome(location, net, "AttributeError", "", None, sent.attempts, TRUE)
    ELSE Outcome(location, net, "", "", Some(extract(net.body, location)),
                 sent.attempts, TRUE)

\* As except_clauses, without the last clause (except Exception)
except_clauses_NoCatchAll(r) ==
    CASE r.exc = "" -> r
      [] r.exc = "Timeout" -> [r EXCEPT !.exc = "WeatherAPIError", !.kind = "timeout"]
      [] r.exc = "ConnectionError" ->
             [r EXCEPT !.exc = "WeatherAPIError", !.kind = "connection"]
      [] OTHER -> r

\* The except clauses of get_weather (lines 202-213)
except_clauses(r) ==
    CASE r.exc = "" -> r
      [] r.exc = "Timeout" -> [r EXCEPT !.exc = "WeatherAPIError", !.kind = "timeout"]
      [] r.exc = "ConnectionError" ->
             [r EXCEPT !.exc = "WeatherAPIError", !.kind = "connection"]
      [] r.exc = "WeatherAPIError" -> r
      [] OTHER -> [r EXCEPT !.exc = "WeatherAPIError", !.kind = "unexpected"]

\* As get_weather, raising when no key is configured
get_weather_KeyRequired(location, key, sess, net) ==
    IF ~validate_location(location)
    THEN Outcome(location, net, "WeatherAPIError", "invalid_location", None, 0, sess)
    ELSE IF key = ""
    THEN Outcome(location, net, "WeatherAPIError", "no_api_key", None, 0, sess)
    ELSE except_clauses(request_weather(location, net))

\* get_weather(location) with the configured key, the session state sess and
\* the remote net
get_weather(location, key, sess, net) ==
    IF ~validate_location(location)
    THEN Outcome(location, net, "WeatherAPIError", "invalid_location", None, 0, sess)
    ELSE IF key = ""
    THEN Outcome(location, net, "", "", None, 0, sess)
    ELSE except_clauses(request_weather(location, net))

get_weather_safe(location, key, sess, net) ==
    LET r == get_weather(location, key, sess, net) IN
    IF r.exc = "WeatherAPIError" THEN [r EXCEPT !.exc = "", !.result = None] ELSE r

\* add_weather_to_task: the fetches made for the dicts of the rows ids (one
\* for each row with a location), and the dicts returned
Located(db, ids) ==
    {i \in ids : db[i].location # None /\ db[i].location # Some("")}

\* The rows whose fetch gets as far as the network
Networked(db, ids, key) ==
    {i \in Located(db, ids) : key # "" /\ validate_location(db[i].location[1])}

NoNet == [script |-> <<>>, body |-> <<>>]

Fetches(db, ids, key, sess, nets) ==
    [i \in Located(db, ids) |->
        get_weather_safe(db[i].location[1], key, sess,
                         IF i \in DOMAIN nets THEN nets[i] ELSE NoNet)]

add_weather_to_task(task_dict, fetches) ==
    IF task_dict.id \in DOMAIN fetches /\ fetches[task_dict.id].result # None
    THEN task_dict @@ [weather |-> fetches[task_dict.id].result[1]]
    ELSE task_dict

\* The shared session after the fetches: created by the first that needs it
SessionAfter(sess, fetches) ==
    sess \/ \E i \in DOMAIN fetches : fetches[i].session

\* An exception that get_weather_safe lets through ends the request
Raised(fetches) == \E i \in DOMAIN fetches : fetches[i].exc # ""

\* The payloads of a 200 response: the current weather, an object without
\* weather[] and main, a JSON array, and a body that is not JSON
Rainy ==
    [json |-> TRUE, object |-> TRUE,
     weather |-> <<[main |-> "Rain", description |-> "light rain", icon |-> "10d"]>>,
     temp |-> Some(1554), name |-> Some("Tokyo")]
EmptyObject ==
    [json |-> TRUE, object |-> TRUE, weather |-> <<>>, temp |-> None, name |-> None]
JsonArray ==
    [json |-> TRUE, object |-> FALSE, weather |-> <<>>, temp |-> None, name |-> None]
NotJson ==
    [json |-> FALSE, object |-> FALSE, weather |-> <<>>, temp |-> None, name |-> None]

Remote(script, body) == [script |-> script, body |-> body]

STATUS_CODES == {400, 401, 403, 404, 429, 500, 501, 503}

Remotes ==
    {Remote(Always(Http(200)), body) : body \in {Rainy, EmptyObject, JsonArray, NotJson}}
    \cup {Remote(Always(Http(s)), NotJson) : s \in STATUS_CODES}
    \cup {Remote(Always(ConnectTimeout), NotJson), Remote(Always(Refused), NotJson),
          Remote(<<Http(429), Http(503), Http(200), Http(200)>>, Rainy),
          Remote(<<Refused, Http(429), Http(429), Http(404)>>, NotJson)}

\* The remotes of the list requests, which fetch for several rows
ListRemotes ==
    {Remote(Always(Http(200)), Rainy), Remote(Always(Http(429)), NotJson),
     Remote(Always(ConnectTimeout), NotJson)}

NoFetches == [i \in {} |-> 0]

\* A handler that does not look at the weather
NoFetch == wx' = NoFetches /\ UNCHANGED <<api_key, session>>

---------------------------------------------------------------------------
(* Requests and responses *)

\* The last request: the handler, the row it acted on (0: none), the HTTP
\* status, the request body, the number of tasks the recurrence generator
\* added, and the JSON body of a GET
Response(op, id, code, data, count, body) ==
    [op |-> op, id |-> id, code |-> code, data |-> data, count |-> count,
     body |-> body]

\* POST /api/tasks
create_task(data) ==
    IF data = NoData \/ ~Has(data, "title") \/ data.title = ""
    THEN /\ last' = Response("create_task", 0, 400, data, 0, None)
         /\ UNCHANGED <<tasks, now>> /\ NoFetch
    ELSE LET present == Has(data, "due_date") /\ data.due_date # EmptyString
             parsed == IF present THEN fromisoformat(data.due_date)
                       ELSE [ok |-> TRUE, wall |-> 0, tz |-> None]
         IN IF ~parsed.ok
            THEN /\ last' = Response("create_task", 0, 400, data, 0, None)
                 /\ UNCHANGED <<tasks, now>> /\ NoFetch
            ELSE LET task == Task(data.title, GetOpt(data, "description"),
                                  IF present THEN StoreDateTime(parsed) ELSE None,
                                  Get(data, "priority", "medium"),
                                  Get(data, "status", "pending"),
                                  GetOpt(data, "category"),
                                  GetOpt(data, "location"),
                                  Get(data, "repeat_type", "none"), None)
                 IN /\ tasks' = Add(tasks, task, now)
                    /\ last' = Response("create_task", NextId(tasks), 201, data, 0, None)
                    /\ UNCHANGED now /\ NoFetch

\* The response to a read that has made the fetches: 500 when one of them
\* raised
Read(op, id, fetches, body) ==
    IF Raised(fetches) THEN Response(op, id, 500, NoData, 0, None)
    ELSE Response(op, id, 200, NoData, 0, Some(body))

\* GET /api/tasks/<id>
get_task(id) ==
    IF id \notin DOMAIN tasks
    THEN /\ last' = Response("get_task", 0, 404, NoData, 0, None)
         /\ UNCHANGED <<tasks, now>> /\ NoFetch
    ELSE \E nets \in [Networked(tasks, {id}, api_key) -> Remotes] :
         LET fetches == Fetches(tasks, {id}, api_key, session, nets) IN
         /\ last' = Read("get_task", id, fetches,
                         add_weather_to_task(to_dict(tasks, id), fetches))
         /\ wx' = fetches
         /\ session' = SessionAfter(session, fetches)
         /\ UNCHANGED <<tasks, now, api_key>>

\* GET /api/tasks: the rows that pass the status and category filters.  The
\* body is the dict of each row, by id; the order of the list is left out.
get_tasks(status_filter, category_filter) ==
    LET ids == {i \in DOMAIN tasks :
                  /\ status_filter \in STATUSES => tasks[i].status = status_filter
                  /\ category_filter # "" => tasks[i].category = Some(category_filter)}
    IN \E nets \in [Networked(tasks, ids, api_key) -> ListRemotes] :
       LET fetches == Fetches(tasks, ids, api_key, session, nets) IN
       /\ last' = Read("get_tasks", 0, fetches,
                       [i \in ids |-> add_weather_to_task(to_dict(tasks, i), fetches)])
       /\ wx' = fetches
       /\ session' = SessionAfter(session, fetches)
       /\ UNCHANGED <<tasks, now, api_key>>

\* A direct call of get_weather
fetch(location) ==
    \E net \in IF validate_location(location) /\ api_key # "" THEN Remotes ELSE {NoNet} :
        LET r == get_weather(location, api_key, session, net) IN
        /\ last' = Response("get_weather", 0, 0, NoData, 0, None)
        /\ wx' = [i \in {0} |-> r]
        /\ session' = r.session
        /\ UNCHANGED <<tasks, now, api_key>>

\* A direct call of get_weather_safe
fetch_safe(location) ==
    \E net \in IF validate_location(location) /\ api_key # "" THEN Remotes ELSE {NoNet} :
        LET r == get_weather_safe(location, api_key, session, net) IN
        /\ last' = Response("get_weather_safe", 0, 0, NoData, 0, None)
        /\ wx' = [i \in {0} |-> r]
        /\ session' = r.session
        /\ UNCHANGED <<tasks, now, api_key>>

\* The field updates of update_task, in the order of the code.  Each step
\* takes and returns [err, task]: the error of the early return ("" while
\* there is none) and the task object of the session.
Step(r, present, valid, task) ==
    IF r.err # "" \/ ~present THEN r
    ELSE IF ~valid THEN [err |-> "invalid", task |-> r.task]
    ELSE [err |-> "", task |-> task]

update_fields(data, t) ==
    LET r0 == [err |-> "", task |-> t]
        r1 == Step(r0, Has(data, "title"), Has(data, "title") /\ data.title # "",
                   [r0.task EXCEPT !.title = data.title])
        r2 == Step(r1, Has(data, "description"), TRUE,
                   [r1.task EXCEPT !.description = Some(data.description)])
        r3 == Step(r2, Has(data, "due_date"),
                   Has(data, "due_date") /\
                       (data.due_date = EmptyString \/ fromisoformat(data.due_date).ok),
                   [r2.task EXCEPT !.due_date =
                        IF data.due_date = EmptyString THEN None
                        ELSE StoreDateTime(fromisoformat(data.due_date))])
        r4 == Step(r3, Has(data, "priority"),
                   Has(data, "priority") /\ data.priority \in PRIORITIES,
                   [r3.task EXCEPT !.priority = data.priority])
        r5 == Step(r4, Has(data, "status"),
                   Has(data, "status") /\ data.status \in STATUSES,
                   [r4.task EXCEPT !.status = data.status])
        r6 == Step(r5, Has(data, "category"), TRUE,
                   [r5.task EXCEPT !.category = Some(data.category)])
        r7 == Step(r6, Has(data, "location"), TRUE,
                   [r6.task EXCEPT !.location = Some(data.location)])
        r8 == Step(r7, Has(data, "repeat_type"),
                   Has(data, "repeat_type") /\ data.repeat_type \in REPEAT_TYPES,
                   [r7.task EXCEPT !.repeat_type = data.repeat_type])
    IN r8

\* As update_task, leaving updated_at as it was
update_task_KeepTimestamp(id, data) ==
    IF id \notin DOMAIN tasks
    THEN /\ last' = Response("update_task", 0, 404, data, 0, None)
         /\ UNCHANGED <<tasks, now>> /\ NoFetch
    ELSE IF data = NoData
    THEN /\ last' = Response("update_task", id, 400, data, 0, None)
         /\ UNCHANGED <<tasks, now>> /\ NoFetch
    ELSE LET r == update_fields(data, tasks[id]) IN
         IF r.err # ""
         THEN /\ last' = Response("update_task", id, 400, data, 0, None)
              /\ UNCHANGED <<tasks, now>> /\ NoFetch
         ELSE /\ tasks' = [tasks EXCEPT ![id] = r.task]
              /\ last' = Response("update_task", id, 200, data, 0, None)
              /\ UNCHANGED now /\ NoFetch

\* As update_task, committing the session before the early return
update_task_CommitRejected(id, data) ==
    IF id \notin DOMAIN tasks
    THEN /\ last' = Response("update_task", 0, 404, data, 0, None)
         /\ UNCHANGED <<tasks, now>> /\ NoFetch
    ELSE IF data = NoData
    THEN /\ last' = Response("update_task", id, 400, data, 0, None)
         /\ UNCHANGED <<tasks, now>> /\ NoFetch
    ELSE LET r == update_fields(data, tasks[id]) IN
         IF r.err # ""
         THEN /\ tasks' = [tasks EXCEPT ![id] = [r.task EXCEPT !.updated_at = now]]
              /\ last' = Response("update_task", id, 400, data, 0, None)
              /\ UNCHANGED now /\ NoFetch
         ELSE /\ tasks' = [tasks EXCEPT ![id] = [r.task EXCEPT !.updated_at = now]]
              /\ last' = Response("update_task", id, 200, data, 0, None)
              /\ UNCHANGED now /\ NoFetch

\* PUT /api/tasks/<id>
update_task(id, data) ==
    IF id \notin DOMAIN tasks
    THEN /\ last' = Response("update_task", 0, 404, data, 0, None)
         /\ UNCHANGED <<tasks, now>> /\ NoFetch
    ELSE IF data = NoData
    THEN /\ last' = Response("update_task", id, 400, data, 0, None)
         /\ UNCHANGED <<tasks, now>> /\ NoFetch
    ELSE LET r == update_fields(data, tasks[id]) IN
         IF r.err # ""
         THEN \* returns before the commit: the session is discarded
              /\ last' = Response("update_task", id, 400, data, 0, None)
              /\ UNCHANGED <<tasks, now>> /\ NoFetch
         ELSE /\ tasks' = [tasks EXCEPT ![id] = [r.task EXCEPT !.updated_at = now]]
              /\ last' = Response("update_task", id, 200, data, 0, None)
              /\ UNCHANGED now /\ NoFetch

\* DELETE /api/tasks/<id>
delete_task(id) ==
    IF id \notin DOMAIN tasks
    THEN /\ last' = Response("delete_task", 0, 404, NoData, 0, None)
         /\ UNCHANGED <<tasks, now>> /\ NoFetch
    ELSE /\ tasks' = Remove(tasks, id)
         /\ last' = Response("delete_task", id, 200, NoData, 0, None)
         /\ UNCHANGED now /\ NoFetch

\* POST /tasks (web form)
create_task_web(form) ==
    IF ~Has(form, "title") \/ form.title = ""
    THEN /\ last' = Response("create_task_web", 0, 302, form, 0, None)
         /\ UNCHANGED <<tasks, now>> /\ NoFetch
    ELSE LET present == Has(form, "due_date") /\ form.due_date # EmptyString
             parsed == IF present THEN fromisoformat(form.due_date)
                       ELSE [ok |-> FALSE, wall |-> 0, tz |-> None]
             task == Task(form.title, GetOpt(form, "description"),
                          IF parsed.ok THEN StoreDateTime(parsed) ELSE None,
                          Get(form, "priority", "medium"), "pending",
                          GetOpt(form, "category"), GetOpt(form, "location"),
                          Get(form, "repeat_type", "none"), None)
         IN /\ tasks' = Add(tasks, task, now)
            /\ last' = Response("create_task_web", NextId(tasks), 302, form, 0, None)
            /\ UNCHANGED now /\ NoFetch

\* POST /tasks/<id>/update (web form)
update_task_web(id, form) ==
    IF id \notin DOMAIN tasks
    THEN /\ last' = Response("update_task_web", 0, 404, form, 0, None)
         /\ UNCHANGED <<tasks, now>> /\ NoFetch
    ELSE IF ~Has(form, "title") \/ form.title = ""
    THEN /\ last' = Response("update_task_web", id, 302, form, 0, None)
         /\ UNCHANGED <<tasks, now>> /\ NoFetch
    ELSE LET present == Has(form, "due_date") /\ form.due_date # EmptyString
             parsed == IF present THEN fromisoformat(form.due_date)
                       ELSE [ok |-> FALSE, wall |-> 0, tz |-> None]
             due == IF ~present THEN None
                    ELSE IF parsed.ok THEN StoreDateTime(parsed)
                    ELSE tasks[id].due_date
         IN /\ tasks' = [tasks EXCEPT ![id] =
                            [@ EXCEPT !.title = form.title,
                                      !.description = GetOpt(form, "description"),
                                      !.due_date = due,
                                      !.priority = Get(form, "priority", "medium"),
                                      !.category = GetOpt(form, "category"),
                                      !.location = GetOpt(form, "location"),
                                      !.repeat_type = Get(form, "repeat_type", "none"),
                                      !.updated_at = now]]
            /\ last' = Response("update_task_web", id, 302, form, 0, None)
            /\ UNCHANGED now /\ NoFetch

\* POST /tasks/<id>/delete (web form)
delete_task_web(id) ==
    IF id \notin DOMAIN tasks
    THEN /\ last' = Response("delete_task_web", 0, 404, NoData, 0, None)
         /\ UNCHANGED <<tasks, now>> /\ NoFetch
    ELSE /\ tasks' = Remove(tasks, id)
         /\ last' = Response("delete_task_web", id, 302, NoData, 0, None)
         /\ UNCHANGED now /\ NoFetch

\* POST /tasks/<id>/toggle
toggle_task_status(id) ==
    IF id \notin DOMAIN tasks
    THEN /\ last' = Response("toggle_task_status", 0, 404, NoData, 0, None)
         /\ UNCHANGED <<tasks, now>> /\ NoFetch
    ELSE LET status == IF tasks[id].status = "pending" THEN "completed" ELSE "pending"
             db == [tasks EXCEPT ![id].status = status, ![id].updated_at = now]
             new_task == IF status = "completed" /\ db[id].repeat_type # "none"
                         THEN generate_repeat_task(db, id) ELSE None
         IN /\ tasks' = IF new_task # None THEN Add(db, new_task[1], now) ELSE db
            /\ last' = Response("toggle_task_status", id, 302, NoData,
                                IF new_task # None THEN 1 ELSE 0, None)
            /\ UNCHANGED now /\ NoFetch

\* POST /api/tasks/generate-repeat
generate_repeat_tasks_api ==
    \E order \in Orders(overdue_repeat_tasks(tasks, now)) :
        LET r == check_and_generate_repeat_tasks(tasks, now, order) IN
        /\ tasks' = r.db
        /\ last' = Response("generate_repeat_tasks_api", 0, 200, NoData, r.count, None)
        /\ UNCHANGED now /\ NoFetch

\* GET / : the task list page runs the batch before it renders the rows
\* with their weather
index ==
    \E order \in Orders(overdue_repeat_tasks(tasks, now)) :
        LET r == check_and_generate_repeat_tasks(tasks, now, order) IN
        \E nets \in [Networked(r.db, DOMAIN r.db, api_key) -> ListRemotes] :
            LET fetches == Fetches(r.db, DOMAIN r.db, api_key, session, nets) IN
            /\ tasks' = r.db
            /\ last' = Response("index", 0, IF Raised(fetches) THEN 500 ELSE 200,
                                NoData, r.count, None)
            /\ wx' = fetches
            /\ session' = SessionAfter(session, fetches)
            /\ UNCHANGED <<now, api_key>>

\* The clock advances
Tick ==
    /\ now < MaxNow
    /\ now' = now + 1
    /\ UNCHANGED <<tasks, last, api_key, session, wx>>

---------------------------------------------------------------------------
(* Spec: the recurrence generator and the requests that drive it, on the   *)
(* rows that exist.  The requests of one behaviour share one clock         *)
(* reading: day 0, when a task due on day 0 is not overdue, day 1, or day  *)
(* 2, when the daily successor of such a task is overdue too.              *)

RecurCreatePayloads ==
    { [title |-> "a"],
      [title |-> "a", due_date |-> Iso(0, "")],
      [title |-> "a", repeat_type |-> "daily"],
      [title |-> "a", due_date |-> Iso(0, ""), repeat_type |-> "daily"],
      [title |-> "b", description |-> "d", due_date |-> Iso(0, "Z"),
       priority |-> "high", category |-> "work", location |-> "Tokyo",
       repeat_type |-> "weekly"],
      [title |-> "a", due_date |-> Iso(0, ""), repeat_type |-> "monthly"] }

RecurUpdatePayloads ==
    { [status |-> "completed"],
      [due_date |-> Iso(1, "")] }

Clocks == {0, 1, 2}

InBounds(n) == DOMAIN tasks' \subseteq 1..n

\* The configuration without OPENWEATHER_API_KEY in the environment, before
\* the first request
NoApiKey == api_key = "" /\ session = FALSE /\ wx = NoFetches

Init ==
    /\ tasks = [i \in {} |-> 0]
    /\ now \in Clocks
    /\ last = Response("none", 0, 0, NoData, 0, None)
    /\ NoApiKey

Next ==
    \/ \E data \in RecurCreatePayloads : create_task(data) /\ InBounds(MaxId)
    \/ \E id \in DOMAIN tasks, data \in RecurUpdatePayloads : update_task(id, data)
    \/ \E id \in DOMAIN tasks : delete_task(id)
    \/ \E id \in DOMAIN tasks : toggle_task_status(id) /\ InBounds(MaxId)
    \/ generate_repeat_tasks_api /\ InBounds(MaxId)
    \/ index /\ InBounds(MaxId)

Spec == Init /\ [][Next]_vars

---------------------------------------------------------------------------
(* SpecBatch: the batch trigger and the status changes, on tables of up to *)
(* MaxTemplates rows that create_task has made.                            *)

BatchCreatePayloads ==
    { [title |-> "a", due_date |-> Iso(0, "")],
      [title |-> "a", due_date |-> Iso(0, ""), repeat_type |-> "daily"],
      [title |-> "b", description |-> "d", due_date |-> Iso(0, "Z"),
       priority |-> "high", category |-> "work", location |-> "Tokyo",
       repeat_type |-> "weekly"] }

\* The row create_task(data) adds for an accepted payload
CreatedTask(data) ==
    Task(data.title, GetOpt(data, "description"),
         StoreDateTime(fromisoformat(data.due_date)),
         Get(data, "priority", "medium"), Get(data, "status", "pending"),
         GetOpt(data, "category"), GetOpt(data, "location"),
         Get(data, "repeat_type", "none"), None)

RECURSIVE CreatedTable(_, _)
CreatedTable(payloads, clock) ==
    IF payloads = <<>> THEN [i \in {} |-> 0]
    ELSE Add(CreatedTable(SubSeq(payloads, 1, Len(payloads) - 1), clock),
             CreatedTask(payloads[Len(payloads)]), clock)

InitBatch ==
    /\ now \in Clocks
    /\ \E n \in 0..MaxTemplates : \E payloads \in [1..n -> BatchCreatePayloads] :
           tasks = CreatedTable(payloads, now)
    /\ last = Response("none", 0, 0, NoData, 0, None)
    /\ NoApiKey

NextBatch ==
    \/ \E id \in DOMAIN tasks : update_task(id, [status |-> "completed"])
    \/ \E id \in DOMAIN tasks : toggle_task_status(id) /\ InBounds(MaxBatchId)
    \/ generate_repeat_tasks_api /\ InBounds(MaxBatchId)
    \/ index /\ InBounds(MaxBatchId)

SpecBatch == InitBatch /\ [][NextBatch]_vars

---------------------------------------------------------------------------
(* SpecCrud: the create, read, update and delete requests, JSON and web    *)
(* form, with the clock advancing between them.                            *)

CreatePayloads ==
    { NoData,
      [title |-> ""],
      [description |-> "d"],
      [title |-> "a"],
      [title |-> "a", due_date |-> Malformed],
      [title |-> "a", due_date |-> EmptyString],
      [title |-> "a", due_date |-> Iso(0, ""), repeat_type |-> "daily"],
      [title |-> "b", description |-> "d", due_date |-> Iso(0, "Z"),
       priority |-> "high", status |-> "completed", category |-> "work",
       location |-> "Tokyo", repeat_type |-> "weekly"],
      [title |-> "a", due_date |-> Iso(1, "+09:00"), priority |-> "low"],
      [title |-> "a", priority |-> "urgent"],
      [title |-> "a", status |-> "archived"],
      [title |-> "a", repeat_type |-> "yearly"] }

UpdatePayloads ==
    { NoData,
      [title |-> ""],
      [title |-> "b", description |-> "d", category |-> "work",
       location |-> "Tokyo"],
      [status |-> "completed"],
      [status |-> "pending"],
      [status |-> "archived"],
      [title |-> "", status |-> "archived"],
      [priority |-> "urgent", status |-> "completed"],
      [title |-> "c", priority |-> "low", status |-> "completed",
       repeat_type |-> "yearly"],
      [due_date |-> Iso(1, "Z"), repeat_type |-> "daily"],
      [due_date |-> EmptyString],
      [title |-> "c", due_date |-> Malformed] }

FormPayloads ==
    { NoData,
      [title |-> "a", description |-> "", due_date |-> EmptyString,
       priority |-> "medium", category |-> "", location |-> "",
       repeat_type |-> "none"],
      [title |-> "b", description |-> "d", due_date |-> Iso(1, ""),
       priority |-> "high", category |-> "work", location |-> "Tokyo",
       repeat_type |-> "weekly"],
      [title |-> "a", due_date |-> Malformed, priority |-> "urgent",
       repeat_type |-> "yearly"] }

InitCrud ==
    /\ tasks = [i \in {} |-> 0]
    /\ now = 0
    /\ last = Response("none", 0, 0, NoData, 0, None)
    /\ NoApiKey

NextCrud ==
    \/ \E data \in CreatePayloads : create_task(data) /\ InBounds(MaxRows)
    \/ \E id \in 1..MaxRows : get_task(id)
    \/ \E id \in 1..MaxRows, data \in UpdatePayloads : update_task(id, data)
    \/ \E id \in 1..MaxRows : delete_task(id)
    \/ \E form \in FormPayloads : create_task_web(form) /\ InBounds(MaxRows)
    \/ \E id \in 1..MaxRows, form \in FormPayloads : update_task_web(id, form)
    \/ \E id \in 1..MaxRows : delete_task_web(id)
    \/ Tick

SpecCrud == InitCrud /\ [][NextCrud]_vars

---------------------------------------------------------------------------
(* SpecUpdate: the JSON update of a task, accepted and rejected, with the  *)
(* clock advancing between the requests.                                   *)

SmallCreatePayloads ==
    { [title |-> "a"],
      [title |-> "a", due_date |-> Iso(0, ""), status |-> "completed",
       repeat_type |-> "daily"] }

SmallUpdatePayloads ==
    { NoData,
      [status |-> "completed"],
      [status |-> "pending"],
      [status |-> "archived"],
      [title |-> "b", status |-> "completed"],
      [title |-> "", status |-> "pending"],
      [due_date |-> Malformed, status |-> "pending"],
      [priority |-> "urgent", status |-> "completed"],
      [title |-> "c", priority |-> "low", status |-> "completed",
       repeat_type |-> "yearly"] }

NextUpdate ==
    \/ \E data \in SmallCreatePayloads : create_task(data) /\ InBounds(MaxRows)
    \/ \E id \in 1..MaxRows, data \in SmallUpdatePayloads : update_task(id, data)
    \/ \E id \in 1..MaxRows : get_task(id)
    \/ \E id \in 1..MaxRows : delete_task(id)
    \/ Tick

SpecUpdate == InitCrud /\ [][NextUpdate]_vars

---------------------------------------------------------------------------
(* SpecWeather: the weather client, called directly and through the reads  *)
(* that add the weather to a task, with and without an API key.            *)

Locations ==
    {"", " ", "Tokyo", "<script>", "a>b", "a\"b", "O'Hare", "a\\b", "a*100", "a*101"}

WeatherCreatePayloads ==
    { [title |-> "a"],
      [title |-> "a", location |-> "Tokyo"],
      [title |-> "b", status |-> "completed", category |-> "work",
       location |-> "<script>"],
      [title |-> "a", location |-> ""] }

InitWeather ==
    /\ tasks = [i \in {} |-> 0]
    /\ now = 0
    /\ last = Response("none", 0, 0, NoData, 0, None)
    /\ api_key \in {"", "key"}
    /\ session = FALSE
    /\ wx = NoFetches

NextWeather ==
    \/ \E data \in WeatherCreatePayloads : create_task(data) /\ InBounds(MaxWeatherRows)
    \/ \E id \in 1..MaxWeatherRows : get_task(id)
    \/ \E status_filter \in {"all", "pending"}, category_filter \in {"", "work"} :
           get_tasks(status_filter, category_filter)
    \/ \E location \in Locations : fetch(location)
    \/ \E location \in Locations : fetch_safe(location)

SpecWeather == InitWeather /\ [][NextWeather]_vars

---------------------------------------------------------------------------
(* Claims about the recurrence generator *)

Rows == DOMAIN tasks

\* The table before a request restricted to the rows it had: db' on db's ids
Restrict(db, ids) == [i \in ids |-> db[i]]

\* A step that handles a request of handler op (Tick alone moves the clock)
IsRequest(op) == now' = now /\ last'.op = op

BatchOps == {"generate_repeat_tasks_api", "index"}

\* C1: every task whose parent_task_id names a stored task names one that is
\* not itself a generated instance (no recurrence chains).
C1_NoRecurrenceChains ==
    \A i \in Rows :
        tasks[i].parent_task_id # None =>
            LET p == tasks[i].parent_task_id[1] IN
            p \in Rows => tasks[p].parent_task_id = None

\* C2: for each parent p and due date d there is at most one pending task
\* with parent_task_id = p and due_date = d.
C2_AtMostOnePendingInstance ==
    \A i, j \in Rows :
        ( /\ tasks[i].parent_task_id # None
          /\ tasks[i].parent_task_id = tasks[j].parent_task_id
          /\ tasks[i].due_date = tasks[j].due_date
          /\ tasks[i].status = "pending"
          /\ tasks[j].status = "pending" ) => i = j

\* C3: whenever a request changes a task with repeat_type other than none
\* from pending to completed, generate_repeat_task is applied to that task in
\* the same request, and its result, when not None, is a new row afterwards.
C3_CompletionGenerates ==
    [][ \A i \in Rows :
          ( /\ i \in DOMAIN tasks'
            /\ tasks[i].status = "pending"
            /\ tasks'[i].status = "completed"
            /\ tasks'[i].repeat_type # "none" ) =>
              LET g == generate_repeat_task(Restrict(tasks', Rows), i) IN
              g # None =>
                  \E j \in DOMAIN tasks' \ Rows :
                      /\ tasks'[j].parent_task_id = Some(i)
                      /\ tasks'[j].due_date = g[1].due_date
                      /\ tasks'[j].status = "pending" ]_vars

\* C4: generate_repeat_task returns None when a pending task with the
\* template's id as parent and the next due date exists; after a toggle has
\* added the generated task, a second call on the template returns None; and
\* right after a batch run, a second run (in any row order) adds no task.
C4_GenerateIdempotent ==
    /\ \A i \in Rows :
           ( /\ tasks[i].due_date # None
             /\ existing_task(tasks, i, next_due_date(tasks[i])) ) =>
               generate_repeat_task(tasks, i) = None
    /\ (last.op = "toggle_task_status" /\ last.count = 1) =>
           generate_repeat_task(tasks, last.id) = None
    /\ last.op \in BatchOps =>
           \A order \in Orders(overdue_repeat_tasks(tasks, now)) :
               LET r == check_and_generate_repeat_tasks(tasks, now, order) IN
               r.count = 0 /\ r.db = tasks

\* A batch run has just added a task, and its template still qualifies for
\* the next run.
C4_Witness ==
    /\ last.op = "generate_repeat_tasks_api"
    /\ last.count = 1
    /\ overdue_repeat_tasks(tasks, now) # {}

\* The offset the claim gives for each repeat_type
Offset(repeat_type) ==
    CASE repeat_type = "daily" -> 1
      [] repeat_type = "weekly" -> 7
      [] repeat_type = "monthly" -> 30

\* g is the successor the claim describes for template row i of db
IsSuccessor(g, db, i) ==
    /\ g.due_date = Some(db[i].due_date[1] + Offset(db[i].repeat_type))
    /\ g.status = "pending"
    /\ g.repeat_type = db[i].repeat_type
    /\ g.title = db[i].title
    /\ g.description = db[i].description
    /\ g.priority = db[i].priority
    /\ g.category = db[i].category
    /\ g.location = db[i].location
    /\ g.parent_task_id = Some(i)

\* C5: a task returned by generate_repeat_task has the template's due_date
\* plus 1, 7 or 30 days for daily, weekly, monthly, status pending, the
\* template's repeat_type, title, description, priority, category and
\* location, and the template's id as parent_task_id; the row a toggle adds
\* is that task.
C5_GeneratedFields ==
    /\ \A i \in Rows :
           generate_repeat_task(tasks, i) # None =>
               IsSuccessor(generate_repeat_task(tasks, i)[1], tasks, i)
    /\ (last.op = "toggle_task_status" /\ last.count = 1) =>
           IsSuccessor(tasks[Max(Rows)], tasks, last.id)

\* A toggle has completed the weekly template and added its successor.
C5_Witness ==
    /\ last.op = "toggle_task_status"
    /\ last.count = 1
    /\ tasks[last.id].repeat_type = "weekly"
    /\ tasks[last.id].location = Some("Tokyo")
    /\ tasks[Max(Rows)].parent_task_id = Some(last.id)

\* C6: generate_repeat_task returns None for every row with repeat_type none
\* or without due_date; a toggle of such a row adds no row and changes no
\* other row.
C6_NoGeneration ==
    [][ /\ \A i \in DOMAIN tasks' :
               (tasks'[i].repeat_type = "none" \/ tasks'[i].due_date = None) =>
                   generate_repeat_task(tasks', i) = None
        /\ \A i \in Rows :
               ( /\ IsRequest("toggle_task_status")
                 /\ last'.id = i
                 /\ (tasks[i].repeat_type = "none" \/ tasks[i].due_date = None) ) =>
                   /\ last'.count = 0
                   /\ DOMAIN tasks' = Rows
                   /\ \A j \in Rows \ {i} : tasks'[j] = tasks[j] ]_vars

\* A daily task without due_date has been completed by a toggle, beside
\* another row.
C6_Witness ==
    /\ last.op = "toggle_task_status"
    /\ last.id \in Rows
    /\ tasks[last.id].repeat_type = "daily"
    /\ tasks[last.id].due_date = None
    /\ tasks[last.id].status = "completed"
    /\ Cardinality(Rows) = 2

\* The templates the claim lets the batch generate from
Qualifies(db, clock, i) ==
    /\ db[i].status = "pending"
    /\ db[i].parent_task_id = None
    /\ db[i].repeat_type # "none"
    /\ db[i].due_date # None
    /\ db[i].due_date[1] < clock

\* C7: one batch run changes no existing row, adds only rows whose parent is
\* a row that qualified when the run started, at most one per parent, and
\* returns the number of rows it added.
C7_BatchOnePerTemplate ==
    [][ (now' = now /\ last'.op \in BatchOps) =>
          LET new == DOMAIN tasks' \ Rows IN
          /\ \A i \in Rows : i \in DOMAIN tasks' /\ tasks'[i] = tasks[i]
          /\ last'.count = Cardinality(new)
          /\ \A j \in new :
                 /\ tasks'[j].parent_task_id # None
                 /\ tasks'[j].parent_task_id[1] \in Rows
                 /\ Qualifies(tasks, now, tasks'[j].parent_task_id[1])
          /\ \A j, k \in new :
                 tasks'[j].parent_task_id = tasks'[k].parent_task_id => j = k ]_vars

\* A batch run has added one task for each of two templates.
C7_Witness ==
    /\ last.op = "generate_repeat_tasks_api"
    /\ last.count = 2
    /\ Cardinality(Rows) = 4

---------------------------------------------------------------------------
(* Claims about the stored fields and the JSON requests *)

\* C8: every stored task has a non-empty title, priority in high / medium /
\* low, status in pending / completed and repeat_type in none / daily /
\* weekly / monthly.
C8_StoredEnums ==
    \A i \in Rows :
        /\ tasks[i].title # ""
        /\ tasks[i].priority \in PRIORITIES
        /\ tasks[i].status \in STATUSES
        /\ tasks[i].repeat_type \in REPEAT_TYPES

\* The fields of an update payload other than status pass their checks
OtherFieldsValid(data) ==
    /\ Has(data, "title") => data.title # ""
    /\ Has(data, "due_date") =>
           (data.due_date = EmptyString \/ data.due_date.suffix \in {"", "Z", "+09:00"})
    /\ Has(data, "priority") => data.priority \in PRIORITIES
    /\ Has(data, "repeat_type") => data.repeat_type \in REPEAT_TYPES

\* A PUT on an existing task: a status outside pending / completed is
\* answered 400 and changes nothing; a status in it (with the other fields
\* valid, when others_valid) is answered 200, stored, and updated_at becomes
\* the time of the request, not earlier than it was.
UpdateStatusContract(others_valid) ==
    (IsRequest("update_task") /\ last'.id # 0 /\ Has(last'.data, "status")) =>
        LET data == last'.data
            i == last'.id
        IN /\ data.status \notin STATUSES =>
                  last'.code = 400 /\ tasks' = tasks
           /\ (data.status \in STATUSES /\ (others_valid => OtherFieldsValid(data))) =>
                  /\ last'.code = 200
                  /\ tasks'[i].status = data.status
                  /\ tasks'[i].updated_at = now
                  /\ tasks'[i].updated_at >= tasks[i].updated_at

\* C9 as stated: a PUT with status pending or completed on an existing task
\* is accepted, whatever else it carries.
C9_ValidStatusAccepted == [][UpdateStatusContract(FALSE)]_vars

\* C9, amended: a PUT on an existing task with a status outside pending /
\* completed is rejected with 400; with status pending or completed and every
\* other supplied field valid it is accepted, the stored status is the
\* requested one and updated_at is the time of the update, never earlier
\* than before.
C9_StatusUpdate == [][UpdateStatusContract(TRUE)]_vars

\* A PUT has completed a task on a later day than the day it was created.
C9_Witness ==
    /\ last.op = "update_task"
    /\ last.code = 200
    /\ Has(last.data, "status")
    /\ last.id \in Rows
    /\ tasks[last.id].status = "completed"
    /\ tasks[last.id].updated_at = now
    /\ tasks[last.id].updated_at > tasks[last.id].created_at

\* The instant a datetime denotes, naive ones read as UTC (the application
\* compares due dates with utcnow()): the wall clock and the offset from UTC
Instant(wall, tz) == [wall |-> wall, offset |-> IF tz = None THEN 0 ELSE tz[1]]

\* The instant an ISO string of a request or of a response denotes
InstantOf(s) == Instant(fromisoformat(s).wall, fromisoformat(s).tz)

\* C10: a create request without title is answered 400 and adds no task; one
\* with a title (and a well-formed or absent due_date) adds exactly one task
\* under a new id, and a GET of that id returns the supplied title,
\* description, due_date, priority, status, category, location and
\* repeat_type, with medium / pending / none for the ones omitted.
C10_CreateThenGet ==
    [][ IsRequest("create_task") =>
          LET data == last'.data
              due == Has(data, "due_date") /\ data.due_date # EmptyString
          IN IF ~Has(data, "title") \/ data.title = ""
             THEN last'.code = 400 /\ tasks' = tasks
             ELSE (~due \/ fromisoformat(data.due_date).ok) =>
                  /\ last'.code = 201
                  /\ last'.id \notin Rows
                  /\ DOMAIN tasks' = Rows \cup {last'.id}
                  /\ \A i \in Rows : tasks'[i] = tasks[i]
                  /\ LET body == to_dict(tasks', last'.id) IN
                     /\ body.title = data.title
                     /\ body.description = GetOpt(data, "description")
                     /\ IF due
                        THEN /\ body.due_date # None
                             /\ InstantOf(body.due_date[1]) = InstantOf(data.due_date)
                        ELSE body.due_date = None
                     /\ body.priority = Get(data, "priority", "medium")
                     /\ body.status = Get(data, "status", "pending")
                     /\ body.category = GetOpt(data, "category")
                     /\ body.location = GetOpt(data, "location")
                     /\ body.repeat_type = Get(data, "repeat_type", "none") ]_vars

---------------------------------------------------------------------------
(* Claims about the weather client *)

\* A location the contract rejects: empty, longer than 100 characters, or
\* holding one of < > " ' \
Rejected(location) ==
    \/ location = ""
    \/ Len(Text(location)) > 100
    \/ \E i \in 1..Len(Text(location)) : Text(location)[i] \in {"<", ">", "\"", "'", "\\"}

\* The strictly increasing sequences
Increasing(waits) == \A k \in 1..(Len(waits) - 1) : waits[k] < waits[k + 1]

NoKeyContract(valid_only) ==
    last'.op = "get_weather" /\ api_key = ""
        /\ (valid_only => ~Rejected(wx'[0].location))
    => /\ wx'[0].exc = ""
       /\ wx'[0].result = None
       /\ wx'[0].attempts = 0
       /\ session' = session

C13_RateLimitAfterRetries ==
    last.op = "get_weather" /\ wx[0].net.script = Always(Http(429))
    => /\ wx[0].attempts <= 4
       /\ Increasing(wx[0].waits)
       /\ wx[0].exc = "WeatherAPIError"
       /\ wx[0].kind = "rate_limit"

\* The error kind the contract gives to a final status
ExpectedKinds(s) ==
    CASE s \in {401, 403} -> {"authentication", "forbidden"}
      [] s = 404 -> {"not_found"}
      [] s = 429 -> {"rate_limit"}
      [] s >= 500 -> {"server"}
      [] OTHER -> {"api"}

\* C14: a call whose last response has a non-success status s raises the
\* error of the kind of s (401/403 authentication, 404 not found, 429 rate
\* limit, 500 and above server, anything else generic), never a result or
\* None.
C14_StatusDeterminesError ==
    last.op = "get_weather" /\ wx[0].attempts > 0
        /\ wx[0].net.script[wx[0].attempts].kind = "http"
        /\ wx[0].net.script[wx[0].attempts].status >= 400
    => /\ wx[0].exc = "WeatherAPIError"
       /\ wx[0].kind \in ExpectedKinds(wx[0].net.script[wx[0].attempts].status)

\* C15: get_weather_safe never raises; a read of one task or of the list
\* answers 200 with the data of every task it covers, the weather being
\* present exactly for the tasks whose fetch returned a result, and leaves
\* the table as it was.
C15_SafeFetchNeverRaises ==
    [][/\ last'.op = "get_weather_safe" => wx'[0].exc = ""
       /\ last'.op = "get_task" /\ last'.id \in DOMAIN tasks
          => /\ last'.code = 200
             /\ \A k \in DOMAIN to_dict(tasks, last'.id) :
                    last'.body[1][k] = to_dict(tasks, last'.id)[k]
             /\ "weather" \in DOMAIN last'.body[1]
                    <=> last'.id \in DOMAIN wx' /\ wx'[last'.id].result # None
             /\ tasks' = tasks
       /\ last'.op = "get_tasks"
          => /\ last'.code = 200
             /\ \A i \in DOMAIN last'.body[1] :
                    /\ \A k \in DOMAIN to_dict(tasks, i) :
                           last'.body[1][i][k] = to_dict(tasks, i)[k]
                    /\ "weather" \in DOMAIN last'.body[1][i]
                           <=> i \in DOMAIN wx' /\ wx'[i].result # None
             /\ tasks' = tasks]_vars

\* A read of a task whose enrichment failed after the retries were used up
C15_Witness ==
    /\ last.op = "get_task"
    /\ last.code = 200
    /\ last.id \in DOMAIN wx
    /\ wx[last.id].kind = "unexpected"
    /\ wx[last.id].attempts = 4
    /\ "weather" \notin DOMAIN last.body[1]

---------------------------------------------------------------------------
(* Claims about the rejected update *)

\* C16: a PUT that is rejected with 400 leaves the table, updated_at
\* included, as it was, also when fields checked before the rejected one
\* had been assigned to the task object.
C16_RejectedUpdateChangesNothing ==
    [][last'.op = "update_task" /\ last'.code = 400 => tasks' = tasks]_vars

\* A rejected PUT whose title, priority and status were valid and differ
\* from the stored ones, after the clock has advanced
C16_Witness ==
    /\ last.op = "update_task"
    /\ last.code = 400
    /\ last.data = [title |-> "c", priority |-> "low", status |-> "completed",
                    repeat_type |-> "yearly"]
    /\ last.id \in DOMAIN tasks
    /\ tasks[last.id].title = "a"
    /\ tasks[last.id].priority = "medium"
    /\ tasks[last.id].status = "pending"
    /\ tasks[last.id].updated_at < now

====
